---- MODULE Spec2Model ----
(***************************************************************************)
(* Model of src/sec4_given/randomvars.py: symbolic random-variable         *)
(* expressions, substitution, sampling and conditioning (Given).           *)
(*                                                                         *)
(* Python objects live in a heap (a sequence of node records, the index is *)
(* the object identity).  An operand is either a reference to a heap node  *)
(* or a concrete Python value.  Concrete numbers are exact rationals n/d   *)
(* tagged with their Python type (bool, int, float); exceptions are values *)
(* tagged with the exception's name and are propagated by every caller.    *)
(***************************************************************************)
EXTENDS Integers, Sequences, FiniteSets, TLC

(***************************************************************************)
(* Operands and concrete values                                            *)
(***************************************************************************)
Ref(i) == [t |-> "ref", n |-> i, d |-> 0]
IntV(i) == [t |-> "int", n |-> i, d |-> 1]
BoolV(b) == [t |-> "bool", n |-> IF b THEN 1 ELSE 0, d |-> 1]
Err(e) == [t |-> e, n |-> 0, d |-> 0]
NoneV == [t |-> "None", n |-> 0, d |-> 0]
NotImplemented == [t |-> "NotImplemented", n |-> 0, d |-> 0]
\* a float result that is not a rational number (irrational or complex power)
Inexact == [t |-> "inexact", n |-> 0, d |-> 0]

IsRef(v) == v.t = "ref"
IsNum(v) == v.t \in {"bool", "int", "float"}
IsErr(v) == v.t \in {"TypeError", "ZeroDivisionError", "NotImplementedError", "inexact"}

Abs(i) == IF i < 0 THEN -i ELSE i

RECURSIVE Gcd(_, _)
Gcd(a, b) == IF b = 0 THEN a ELSE Gcd(b, a % b)

\* the float n/d in lowest terms, d > 0
FloatV(n, d) ==
    LET s == IF d < 0 THEN -1 ELSE 1
        g == Gcd(Abs(n), Abs(d))
    IN [t |-> "float", n |-> (s * n) \div g, d |-> (s * d) \div g]

RECURSIVE IPow(_, _)
IPow(b, e) == IF e = 0 THEN 1 ELSE b * IPow(b, e - 1)

\* Python's & and | on unbounded two's-complement integers
RECURSIVE BitAnd(_, _)
BitAnd(a, b) ==
    IF a = 0 \/ b = 0 THEN 0
    ELSE IF a = -1 THEN b
    ELSE IF b = -1 THEN a
    ELSE (a % 2) * (b % 2) + 2 * BitAnd(a \div 2, b \div 2)

RECURSIVE BitOr(_, _)
BitOr(a, b) ==
    IF a = 0 THEN b
    ELSE IF b = 0 THEN a
    ELSE IF a = -1 \/ b = -1 THEN -1
    ELSE (IF a % 2 = 1 \/ b % 2 = 1 THEN 1 ELSE 0) + 2 * BitOr(a \div 2, b \div 2)

\* int unless one side is a float
Arith(a, b, n, d) ==
    IF a.t = "float" \/ b.t = "float" THEN FloatV(n, d) ELSE IntV(n \div d)

\* operator.pow on two numbers
PowVal(a, b) ==
    IF b.d = 1
    THEN IF b.n >= 0
         THEN Arith(a, b, IPow(a.n, b.n), IPow(a.d, b.n))
         ELSE IF a.n = 0 THEN Err("ZeroDivisionError")
              ELSE FloatV(IPow(a.d, -b.n), IPow(a.n, -b.n))
    ELSE IF a.n = 0
         THEN IF b.n > 0 THEN FloatV(0, 1) ELSE Err("ZeroDivisionError")
         ELSE IF a.n = a.d THEN FloatV(1, 1) ELSE Inexact

\* operator.and_ / operator.or_ on two numbers
BitVal(cls, a, b) ==
    IF a.t = "float" \/ b.t = "float" THEN Err("TypeError")
    ELSE LET r == IF cls = "And" THEN BitAnd(a.n, b.n) ELSE BitOr(a.n, b.n)
         IN IF a.t = "bool" /\ b.t = "bool" THEN BoolV(r = 1) ELSE IntV(r)

\* the binary function `op` of the BinaryOp subclass cls applied to two numbers
OpVal(cls, a, b) ==
    CASE cls = "Add" -> Arith(a, b, a.n * b.d + b.n * a.d, a.d * b.d)
      [] cls = "Sub" -> Arith(a, b, a.n * b.d - b.n * a.d, a.d * b.d)
      [] cls = "Mul" -> Arith(a, b, a.n * b.n, a.d * b.d)
      [] cls = "Div" -> IF b.n = 0 THEN Err("ZeroDivisionError")
                        ELSE FloatV(a.n * b.d, a.d * b.n)
      [] cls = "Pow" -> PowVal(a, b)
      [] cls = "Lt" -> BoolV(a.n * b.d < b.n * a.d)
      [] cls = "Gt" -> BoolV(a.n * b.d > b.n * a.d)
      [] cls \in {"Or", "And"} -> BitVal(cls, a, b)

\* Python's truth value: objects without __bool__/__len__ are true
Truthy(v) == IF IsNum(v) THEN v.n # 0 ELSE TRUE

(***************************************************************************)
(* The heap: one record per Python object.  cls is the object's class;     *)
(* name is set for Variables; left/right for BinaryOps; unique_vars is the *)
(* Python set of Variable objects (references), kept without duplicates    *)
(* under Variable.__eq__/__hash__.                                         *)
(***************************************************************************)
VarClasses == {"Uniform", "Normal"}
OpClasses == {"Add", "Sub", "Mul", "Div", "Pow", "Lt", "Gt", "Or", "And"}

\* the proper base classes of a class (object left out)
Bases(cls) ==
    IF cls = "Expression" THEN {}
    ELSE IF cls \in {"Variable", "BinaryOp"} THEN {"Expression"}
    ELSE IF cls \in VarClasses THEN {"Variable", "Expression"}
    ELSE {"BinaryOp", "Expression"}

\* the magic methods the two decorators wrap
OPS == <<"__add__", "__radd__", "__sub__", "__rsub__", "__mul__", "__rmul__",
         "__truediv__", "__rtruediv__", "__pow__", "__rpow__", "__lt__", "__gt__",
         "__or__", "__ror__", "__and__", "__rand__">>

OpNames == {OPS[i] : i \in 1..Len(OPS)}

\* mutant: Variables compared by object identity (no __eq__/__hash__ override)
VariableEqIdentity(h, i, j) == i = j

\* Variable.__eq__ (and the matching __hash__): same class and same name
VariableEq(h, i, j) == h[i].cls = h[j].cls /\ h[i].name = h[j].name

\* mutant: the right operand's Variables are forgotten
SetUnionLeftOnly(h, A, B) == A

\* set union of two Python sets of Variables: an element equal to one already
\* present is not added
SetUnion(h, A, B) == A \cup {b \in B : \A a \in A : ~VariableEq(h, a, b)}

\* getattr(operand, 'unique_vars', set())
UniqueVarsOf(h, v) == IF IsRef(v) THEN h[v.n].unique_vars ELSE {}

\* Variable.__init__ (through Expression.__init__): a new leaf whose set holds itself
VariableInit(h, cls, name) ==
    LET id == Len(h) + 1
    IN [h |-> Append(h, [cls |-> cls, name |-> name, left |-> NoneV, right |-> NoneV,
                         unique_vars |-> {id}]),
        v |-> Ref(id)]

\* Expression.__init__ on the bare base class
ExpressionInit(h) ==
    [h |-> Append(h, [cls |-> "Expression", name |-> "", left |-> NoneV, right |-> NoneV,
                      unique_vars |-> {}]),
     v |-> Ref(Len(h) + 1)]

\* mutant: the new node shares the left operand's set object and adds to it
BinaryOpInitAliased(h, cls, left, right) ==
    LET u == SetUnion(h, UniqueVarsOf(h, left), UniqueVarsOf(h, right))
        g == IF IsRef(left) THEN [h EXCEPT ![left.n].unique_vars = u] ELSE h
    IN [h |-> Append(g, [cls |-> cls, name |-> "", left |-> left, right |-> right,
                         unique_vars |-> u]),
        v |-> Ref(Len(h) + 1)]

\* BinaryOp.__init__: a new node; nothing that exists is written
BinaryOpInit(h, cls, left, right) ==
    [h |-> Append(h, [cls |-> cls, name |-> "", left |-> left, right |-> right,
                      unique_vars |-> SetUnion(h, UniqueVarsOf(h, left),
                                               UniqueVarsOf(h, right))]),
     v |-> Ref(Len(h) + 1)]

IsGiven(h, v) == IsRef(v) /\ h[v.n].cls = "Given"

\* the class an Expression method builds, and whether it swaps its arguments
MethodClass(name) ==
    CASE name \in {"__add__", "__radd__"} -> "Add"
      [] name \in {"__sub__", "__rsub__"} -> "Sub"
      [] name \in {"__mul__", "__rmul__"} -> "Mul"
      [] name \in {"__truediv__", "__rtruediv__"} -> "Div"
      [] name \in {"__pow__", "__rpow__"} -> "Pow"
      [] name = "__lt__" -> "Lt"
      [] name = "__gt__" -> "Gt"
      [] name \in {"__or__", "__ror__"} -> "Or"
      [] name \in {"__and__", "__rand__"} -> "And"

IsReflected(name) ==
    name \in {"__radd__", "__rsub__", "__rmul__", "__rtruediv__", "__rpow__", "__ror__",
              "__rand__"}

\* mutant: the reflected methods forget to swap their arguments
ExpressionMethodUnswapped(h, name, self, other) ==
    BinaryOpInit(h, MethodClass(name), self, other)

\* Expression.__add__ ... Expression.__rand__ as written in the class body
ExpressionMethod(h, name, self, other) ==
    IF IsReflected(name)
    THEN BinaryOpInit(h, MethodClass(name), other, self)
    ELSE BinaryOpInit(h, MethodClass(name), self, other)

\* mutant: Expression is left undecorated
not_given_ops_missing(h, name, self, other) == ExpressionMethod(h, name, self, other)

\* the method not_given_ops installs on Expression under each name of OPS
not_given_ops(h, name, self, other) ==
    IF name \in OpNames /\ IsGiven(h, other)
    THEN [h |-> h, v |-> NotImplemented]
    ELSE ExpressionMethod(h, name, self, other)

(***************************************************************************)
(* Python's binary-operator protocol: `l sym r` calls the left operand's   *)
(* method and, when that returns NotImplemented (or the left operand is a  *)
(* plain number, whose own method does not know Expressions), the right    *)
(* operand's reflected method with the operands swapped.  < and > have no  *)
(* r-variant: each is the other's reflection.  When the right operand's    *)
(* class is a proper subclass of the left operand's, the reflected method  *)
(* is tried first: always for a comparison, and for the other operators    *)
(* when the subclass has its own reflected method (only Given has).        *)
(***************************************************************************)
Syms == {"add", "sub", "mul", "truediv", "pow", "lt", "gt", "or", "and"}

Forward(sym) ==
    CASE sym = "add" -> "__add__" [] sym = "sub" -> "__sub__" [] sym = "mul" -> "__mul__"
      [] sym = "truediv" -> "__truediv__" [] sym = "pow" -> "__pow__"
      [] sym = "lt" -> "__lt__" [] sym = "gt" -> "__gt__"
      [] sym = "or" -> "__or__" [] sym = "and" -> "__and__"

Reflection(sym) ==
    CASE sym = "add" -> "__radd__" [] sym = "sub" -> "__rsub__" [] sym = "mul" -> "__rmul__"
      [] sym = "truediv" -> "__rtruediv__" [] sym = "pow" -> "__rpow__"
      [] sym = "lt" -> "__gt__" [] sym = "gt" -> "__lt__"
      [] sym = "or" -> "__ror__" [] sym = "and" -> "__rand__"

RECURSIVE PyBinOp(_, _, _, _)
RECURSIVE postfix_and(_, _, _, _)
RECURSIVE GivenInit(_, _, _)

\* the method found on type(self) under `name`
Method(h, name, self, other) ==
    IF name \in OpNames /\ IsGiven(h, self)
    THEN postfix_and(h, name, self, other)
    ELSE not_given_ops(h, name, self, other)

ReflectedFirst(h, sym, l, r) ==
    /\ IsRef(l) /\ IsRef(r)
    /\ h[l.n].cls \in Bases(h[r.n].cls)
    /\ (sym \in {"lt", "gt"} \/ IsGiven(h, r))

PyBinOp(h, sym, l, r) ==
    IF ~IsRef(l) /\ ~IsRef(r)
    THEN [h |-> h, v |-> OpVal(MethodClass(Forward(sym)), l, r)]
    ELSE LET early == IF ReflectedFirst(h, sym, l, r)
                      THEN Method(h, Reflection(sym), r, l)
                      ELSE [h |-> h, v |-> NotImplemented]
         IN IF early.v # NotImplemented THEN early
            ELSE LET first == IF IsRef(l) THEN Method(h, Forward(sym), l, r)
                              ELSE [h |-> h, v |-> NotImplemented]
                 IN IF first.v # NotImplemented THEN first
                    ELSE LET second == IF IsRef(r) /\ ~ReflectedFirst(h, sym, l, r)
                                       THEN Method(h, Reflection(sym), r, l)
                                       ELSE [h |-> h, v |-> NotImplemented]
                         IN IF second.v # NotImplemented THEN second
                            ELSE [h |-> h, v |-> Err("TypeError")]

\* the method postfix_and installs on Given under each name of OPS
postfix_and(h, name, self, other) ==
    LET isG == IsGiven(h, other)
        oval == IF isG THEN h[other.n].left ELSE other
        R == IF isG THEN PyBinOp(h, "and", h[self.n].right, h[other.n].right)
             ELSE [h |-> h, v |-> h[self.n].right]
    IN IF IsErr(R.v) THEN R
       ELSE LET S == not_given_ops(R.h, name, h[self.n].left, oval)
            IN GivenInit(S.h, S.v, R.v)

\* mutant: a Given subject is kept as it is
GivenInitNested(h, left, right) == BinaryOpInit(h, "Given", left, right)

\* Given.__init__: a Given subject is flattened before BinaryOp.__init__ runs
GivenInit(h, left, right) ==
    IF IsGiven(h, left)
    THEN LET R == PyBinOp(h, "and", right, h[left.n].right)
         IN IF IsErr(R.v) THEN R
            ELSE BinaryOpInit(R.h, "Given", h[left.n].left, R.v)
    ELSE BinaryOpInit(h, "Given", left, right)

(***************************************************************************)
(* Substitution.  `values` is the Python dict: a function from Variable    *)
(* objects (heap references) to concrete values; lookup is by __eq__.      *)
(***************************************************************************)
\* values.get(self, self) for a Variable
VariableSubs(h, id, values) ==
    IF \E k \in DOMAIN values : VariableEq(h, k, id)
    THEN values[CHOOSE k \in DOMAIN values : VariableEq(h, k, id)]
    ELSE Ref(id)

\* Given.op: the classmethod that stands in for the binary function
GivenOp(h, left, right) == GivenInit(h, left, right)

\* mutant: the operands are passed in the wrong order
ClassCallSwapped(h, cls, lval, rval) ==
    IF cls = "Given" THEN GivenInit(h, rval, lval) ELSE BinaryOpInit(h, cls, rval, lval)

\* self.__class__(lval, rval)
ClassCall(h, cls, lval, rval) ==
    IF cls = "Given" THEN GivenInit(h, lval, rval) ELSE BinaryOpInit(h, cls, lval, rval)

\* self.op(lval, rval)
ApplyOp(h, cls, lval, rval) ==
    IF cls = "Given" THEN GivenOp(h, lval, rval)
    ELSE [h |-> h, v |-> OpVal(cls, lval, rval)]

RECURSIVE Subs(_, _, _)
\* x.subs(values) for the object id: Expression.subs, Variable.subs, BinaryOp.subs
Subs(h, id, values) ==
    IF h[id].cls = "Expression" THEN [h |-> h, v |-> Err("NotImplementedError")]
    ELSE IF h[id].cls \in VarClasses THEN [h |-> h, v |-> VariableSubs(h, id, values)]
    ELSE LET L == IF IsRef(h[id].left) THEN Subs(h, h[id].left.n, values)
                  ELSE [h |-> h, v |-> h[id].left]
         IN IF IsErr(L.v) THEN L
            ELSE LET R == IF IsRef(h[id].right) THEN Subs(L.h, h[id].right.n, values)
                          ELSE [h |-> L.h, v |-> h[id].right]
                 IN IF IsErr(R.v) THEN R
                    ELSE IF IsRef(L.v) \/ IsRef(R.v)
                         THEN ClassCall(R.h, h[id].cls, L.v, R.v)
                         ELSE ApplyOp(R.h, h[id].cls, L.v, R.v)

(***************************************************************************)
(* The state machine: a client that holds a pool of objects, builds one    *)
(* more expression and then substitutes into it or samples it.             *)
(***************************************************************************)
VARIABLES
    heap,      \* the Python objects
    pc,        \* "ready" | "built" | "sampling" | "returned" | "raised"
    call,      \* the last call: [op, l, r]
    ret,       \* what the last call returned or raised
    values,    \* the dict of the last subs()/sample()
    ndraws,    \* how many k.sample() calls the last sample() attempt made
    rejected   \* rejected attempts of the running Given.sample()

vars == <<heap, pc, call, ret, values, ndraws, rejected>>

\* rejected attempts are counted up to here; the loop itself goes on
MaxRejected == 2

\* plain Python operands of the client
Consts == {IntV(0), BoolV(TRUE)}

\* what random.random() / random.normalvariate(0, 1) may return
DrawValues(cls) ==
    IF cls = "Uniform" THEN {FloatV(0, 1), FloatV(1, 2)} ELSE {FloatV(-1, 1), FloatV(1, 1)}

EmptyDict == [k \in {} |-> NoneV]

Refs(h) == {Ref(i) : i \in 1..Len(h)}
Operands(h) == Refs(h) \cup Consts

\* {k: k.sample() for k in U}: one draw per element of the set
Draws(h, U) == {f \in [U -> DrawValues("Uniform") \cup DrawValues("Normal")] :
                   \A k \in U : f[k] \in DrawValues(h[k].cls)}

\* the dicts a client may pass to subs(): Variable objects as keys, no two equal
Bindings(h) ==
    LET V == {i \in 1..Len(h) : h[i].cls \in VarClasses}
    IN UNION {Draws(h, K) : K \in {S \in SUBSET V :
                                      \A i, j \in S : i # j => ~VariableEq(h, i, j)}}

\* the pool: Uniform("x"), a second Variable, a comparison on each, a Given on each,
\* and a bare Expression()
Pool(h, cls2, name2, cmp) ==
    \E a \in {VariableInit(<<>>, "Uniform", "x")} :
    \E b \in {VariableInit(a.h, cls2, name2)} :
    \E c \in {PyBinOp(b.h, cmp, a.v, IntV(0))} :
    \E d \in {PyBinOp(c.h, "gt", b.v, IntV(0))} :
    \E e \in {GivenInit(d.h, a.v, c.v)} :
    \E f \in {GivenInit(e.h, b.v, d.v)} :
    \E g \in {ExpressionInit(f.h)} :
        h = g.h

Init ==
    /\ \E cls2 \in VarClasses, name2 \in {"x", "y"}, cmp \in {"lt", "gt"} :
          /\ <<cls2, name2>> # <<"Normal", "y">>
          /\ Pool(heap, cls2, name2, cmp)
    /\ pc = "ready"
    /\ call = [op |-> "none", l |-> NoneV, r |-> NoneV]
    /\ ret = NoneV
    /\ values = EmptyDict
    /\ ndraws = 0
    /\ rejected = 0

Built(res, op, l, r) ==
    /\ heap' = res.h
    /\ ret' = res.v
    /\ call' = [op |-> op, l |-> l, r |-> r]
    /\ pc' = IF IsErr(res.v) THEN "raised" ELSE "built"
    /\ UNCHANGED <<values, ndraws, rejected>>

\* l sym r, at least one operand an Expression
Operator(sym, l, r) ==
    /\ pc = "ready"
    /\ ~(~IsRef(l) /\ ~IsRef(r))
    /\ \E res \in {PyBinOp(heap, sym, l, r)} : Built(res, sym, l, r)

\* Given(l, r)
NewGiven(l, r) ==
    /\ pc = "ready"
    /\ \E res \in {GivenInit(heap, l, r)} : Built(res, "Given", l, r)

\* Uniform(name) or Normal(name)
NewVariable(cls, name) ==
    /\ pc = "ready"
    /\ \E res \in {VariableInit(heap, cls, name)} : Built(res, cls, NoneV, NoneV)

\* Expression()
NewExpression ==
    /\ pc = "ready"
    /\ \E res \in {ExpressionInit(heap)} : Built(res, "Expression", NoneV, NoneV)

\* temporaries of a call are dropped; the objects that existed stay
Existing(h) == SubSeq(h, 1, Len(heap))

Finished(res, op, d, n) ==
    /\ heap' = IF IsRef(res.v) THEN res.h ELSE Existing(res.h)
    /\ ret' = res.v
    /\ call' = [op |-> op, l |-> ret, r |-> NoneV]
    /\ values' = d
    /\ ndraws' = n
    /\ pc' = IF IsErr(res.v) THEN "raised" ELSE "returned"
    /\ UNCHANGED rejected

\* ret.subs(b)
SubsCall ==
    /\ pc = "built" /\ IsRef(ret)
    /\ \E b \in Bindings(heap) :
          \E res \in {Subs(heap, ret.n, b)} :
              res.v # Inexact /\ Finished(res, "subs", b, 0)

\* every draw of the expression stays within the rationals
Exact(h, id) == \A d \in Draws(h, h[id].unique_vars) : Subs(h, id, d).v # Inexact

\* Uniform.sample / Normal.sample
VariableSample ==
    /\ pc = "built" /\ IsRef(ret) /\ heap[ret.n].cls \in VarClasses
    /\ \E x \in DrawValues(heap[ret.n].cls) :
          Finished([h |-> heap, v |-> x], "sample", EmptyDict, 1)

\* Expression.sample: one draw per element of unique_vars, then subs
ExpressionSample ==
    /\ pc = "built" /\ IsRef(ret) /\ heap[ret.n].cls \notin VarClasses \cup {"Given"}
    /\ Exact(heap, ret.n)
    /\ \E d \in Draws(heap, heap[ret.n].unique_vars) :
          \E res \in {Subs(heap, ret.n, d)} :
              Finished(res, "sample", d, Cardinality(DOMAIN d))

\* Given.sample is entered
GivenSampleCall ==
    /\ pc = "built" /\ IsGiven(heap, ret)
    /\ Exact(heap, ret.n)
    /\ pc' = "sampling"
    /\ call' = [op |-> "sample", l |-> ret, r |-> NoneV]
    /\ rejected' = 0
    /\ values' = EmptyDict
    /\ ndraws' = 0
    /\ UNCHANGED <<heap, ret>>

\* mutant: the condition is not looked at
AcceptsAlways(val) == TRUE

\* `if val.right:` on the Given node that super().sample() returned
Accepts(val) == Truthy(val.h[val.v.n].right)

\* mutant: an exception during an attempt is swallowed and the attempt repeated
AttemptCatching(val) ==
    IF IsErr(val.v) THEN "retry"
    ELSE IF Accepts(val) THEN "return"
    ELSE "retry"

\* mutant: the loop gives up after MaxRejected rejected attempts
AttemptCapped(val) ==
    IF IsErr(val.v) THEN "raise"
    ELSE IF Accepts(val) THEN "return"
    ELSE IF rejected >= MaxRejected THEN "raise"
    ELSE "retry"

\* how one turn of `while True` ends: an exception of super().sample() leaves the
\* loop, a true val.right returns val.left, anything else goes round again
Attempt(val) ==
    IF IsErr(val.v) THEN "raise"
    ELSE IF Accepts(val) THEN "return"
    ELSE "retry"

\* one turn of Given.sample's loop: val = super().sample(); if val.right: return val.left
GivenSample ==
    /\ pc = "sampling"
    /\ \E d \in Draws(heap, heap[call.l.n].unique_vars) :
       \E val \in {Subs(heap, call.l.n, d)} :
       \E how \in {Attempt(val)} :
          /\ values' = d
          /\ ndraws' = Cardinality(DOMAIN d)
          /\ UNCHANGED call
          /\ pc' = CASE how = "raise" -> "raised"
                      [] how = "return" -> "returned"
                      [] how = "retry" -> "sampling"
          /\ ret' = CASE how = "raise" -> val.v
                       [] how = "return" -> val.h[val.v.n].left
                       [] how = "retry" -> ret
          /\ heap' = IF how = "return" /\ IsRef(val.h[val.v.n].left)
                     THEN val.h ELSE Existing(val.h)
          /\ rejected' = IF how = "retry" /\ rejected < MaxRejected
                         THEN rejected + 1 ELSE rejected

OperatorCall ==
    pc = "ready" /\ \E sym \in Syms, l, r \in Operands(heap) : Operator(sym, l, r)

GivenCall ==
    pc = "ready" /\ \E l, r \in Operands(heap) : NewGiven(l, r)

VariableCall ==
    \E cls \in VarClasses, name \in {"x", "y"} : NewVariable(cls, name)

Next ==
    \/ OperatorCall
    \/ GivenCall
    \/ VariableCall
    \/ NewExpression
    \/ SubsCall
    \/ VariableSample
    \/ ExpressionSample
    \/ GivenSampleCall
    \/ GivenSample

Spec == Init /\ [][Next]_vars

(***************************************************************************)
(* What the expressions mean, read off the tree alone: the Variables that  *)
(* occur in a subtree, by (class, name), and the value of a subtree under  *)
(* an assignment of one value to each such Variable.                       *)
(***************************************************************************)
KeyOf(h, i) == <<h[i].cls, h[i].name>>

RECURSIVE Occurring(_, _)
\* the (class, name) pairs of the Variables in the subtree of operand v
Occurring(h, v) ==
    IF ~IsRef(v) THEN {}
    ELSE IF h[v.n].cls \in VarClasses THEN {KeyOf(h, v.n)}
    ELSE IF h[v.n].cls = "Expression" THEN {}
    ELSE Occurring(h, h[v.n].left) \cup Occurring(h, h[v.n].right)

AllKeys == {<<c, n>> : c \in VarClasses, n \in {"x", "y"}}
AllDraws == DrawValues("Uniform") \cup DrawValues("Normal")

\* every assignment of a possible draw to each (class, name)
Assignments == {e \in [AllKeys -> AllDraws] : \A k \in AllKeys : e[k] \in DrawValues(k[1])}

\* a Given node that evaluated without an exception: a Python object
Object == [t |-> "object", n |-> 0, d |-> 0]

RECURSIVE Value(_, _, _)
\* the value of operand v when every Variable (class, name) has the value e[class, name]
Value(h, v, e) ==
    IF ~IsRef(v) THEN v
    ELSE IF h[v.n].cls \in VarClasses THEN e[KeyOf(h, v.n)]
    ELSE IF h[v.n].cls = "Expression" THEN Err("NotImplementedError")
    ELSE LET a == Value(h, h[v.n].left, e)
         IN IF IsErr(a) THEN a
            ELSE LET b == Value(h, h[v.n].right, e)
                 IN IF IsErr(b) THEN b
                    ELSE IF h[v.n].cls = "Given" \/ a = Object \/ b = Object THEN Object
                    ELSE OpVal(h[v.n].cls, a, b)

\* the dict d gives each of its keys the value e gives that Variable
Agrees(h, d, e) == \A k \in DOMAIN d : d[k] = e[KeyOf(h, k)]

\* the last call was x.sample() / x.subs() and has ended
Sampled == call.op = "sample" /\ pc \in {"returned", "raised"}
Substituted == call.op = "subs" /\ pc \in {"returned", "raised"}

\* the subject and the condition of the Given the last call was made on
Subject == heap[call.l.n].left
Condition == heap[call.l.n].right

SameVariableTwice(h, v) ==
    /\ IsRef(v) /\ h[v.n].cls = "Sub"
    /\ IsRef(h[v.n].left) /\ IsRef(h[v.n].right)
    /\ h[h[v.n].left.n].cls \in VarClasses /\ h[h[v.n].right.n].cls \in VarClasses
    /\ h[v.n].left # h[v.n].right
    /\ KeyOf(h, h[v.n].left.n) = KeyOf(h, h[v.n].right.n)

(***************************************************************************)
(* C1: one sample() draws exactly one value per distinct Variable (class,  *)
(* name) of the tree, and the result is the tree's value with every        *)
(* occurrence of a Variable, separately constructed or not, replaced by    *)
(* that one value; Uniform("x") - Uniform("x") samples to exactly 0.0.     *)
(***************************************************************************)
C1_OneDrawPerVariable ==
    (call.op = "sample" /\ pc \in {"returned", "raised", "sampling"} /\ ndraws > 0) =>
        /\ ndraws = Cardinality(Occurring(heap, call.l))
        /\ heap[call.l.n].cls \notin VarClasses =>
              /\ \A k \in Occurring(heap, call.l) :
                    \E i \in DOMAIN values : KeyOf(heap, i) = k
              /\ \E e \in Assignments :
                    /\ Agrees(heap, values, e)
                    /\ (Sampled /\ heap[call.l.n].cls # "Given") => ret = Value(heap, call.l, e)
                    /\ (pc = "returned" /\ heap[call.l.n].cls = "Given") =>
                          ret = Value(heap, Subject, e)
        /\ (pc = "returned" /\ SameVariableTwice(heap, call.l)) => ret = FloatV(0, 1)

C1_Witness ==
    /\ pc = "returned" /\ call.op = "sample"
    /\ SameVariableTwice(heap, call.l)
    /\ ret = FloatV(0, 1) /\ ndraws = 1
    /\ \E k \in DOMAIN values : values[k] = FloatV(1, 2)

GivenSampling == call.op = "sample" /\ IsGiven(heap, call.l)

\* the condition is `subject > t` for a Variable subject and a number t
SubjectAbove(h, g) ==
    /\ IsRef(h[g].left) /\ h[h[g].left.n].cls \in VarClasses
    /\ IsRef(h[g].right) /\ h[h[g].right.n].cls = "Gt"
    /\ IsRef(h[h[g].right.n].left)
    /\ h[h[h[g].right.n].left.n].cls \in VarClasses
    /\ KeyOf(h, h[h[g].right.n].left.n) = KeyOf(h, h[g].left.n)
    /\ IsNum(h[h[g].right.n].right)

(***************************************************************************)
(* C2: a value returned by Given.sample() is the subject's value under an  *)
(* assignment (one value per Variable, shared by subject and condition)    *)
(* that makes the condition true; the loop goes round again only after an  *)
(* attempt whose condition was false; given(u, u > t) returns values > t.  *)
(* A condition that is itself a Given substitutes to a Given object, which *)
(* Python counts as true.                                                  *)
(***************************************************************************)
C2_GivenReturnsAccepted ==
    GivenSampling =>
        /\ pc = "returned" =>
              \E e \in Assignments :
                  /\ Agrees(heap, values, e)
                  /\ ~IsErr(Value(heap, Condition, e))
                  /\ Truthy(Value(heap, Condition, e))
                  /\ ret = Value(heap, Subject, e)
        /\ (pc = "sampling" /\ rejected > 0) =>
              \E e \in Assignments :
                  /\ Agrees(heap, values, e)
                  /\ ~IsErr(Value(heap, Condition, e))
                  /\ ~Truthy(Value(heap, Condition, e))
        /\ (pc = "returned" /\ SubjectAbove(heap, call.l.n)) =>
              ret.n * heap[Condition.n].right.d > heap[Condition.n].right.n * ret.d

C2_Witness ==
    /\ GivenSampling /\ pc = "returned" /\ rejected > 0
    /\ SubjectAbove(heap, call.l.n)
    /\ heap[Subject.n].unique_vars # heap[Condition.n].unique_vars
    /\ ret = FloatV(1, 2)

\* what one attempt on the Given g does when the draws are those of e
Outcome(h, g, e) ==
    LET val == Subs(h, g.n, [k \in h[g.n].unique_vars |-> e[KeyOf(h, k)]])
        how == Attempt(val)
    IN [how |-> how, v |-> IF how = "return" THEN val.h[val.v.n].left ELSE NoneV]

\* the last call was Given(g, c) on a Given g
Flattening == call.op = "Given" /\ pc = "built" /\ IsGiven(heap, call.l)

\* Given(a, b & c) built directly on the same heap
Direct ==
    LET k == PyBinOp(heap, "and", heap[call.l.n].right, call.r)
    IN GivenInit(k.h, heap[call.l.n].left, k.v)

(***************************************************************************)
(* C3: Given(Given(a, b), c) is, as soon as it is constructed, one Given   *)
(* whose subject is a (never a Given) and whose condition is the           *)
(* conjunction of b and c; under every assignment it raises, rejects or    *)
(* returns the same value as Given(a, b & c) built directly.               *)
(***************************************************************************)
C3_NestedGivenFlattened ==
    /\ \A i \in 1..Len(heap) : heap[i].cls = "Given" => ~IsGiven(heap, heap[i].left)
    /\ Flattening =>
          /\ IsGiven(heap, ret)
          /\ heap[ret.n].left = heap[call.l.n].left
          /\ (~IsGiven(heap, call.r) /\ ~IsGiven(heap, heap[call.l.n].right)) =>
                /\ IsRef(heap[ret.n].right)
                /\ heap[heap[ret.n].right.n].cls = "And"
                /\ {heap[heap[ret.n].right.n].left, heap[heap[ret.n].right.n].right}
                     = {heap[call.l.n].right, call.r}
          /\ \A e \in Assignments : Outcome(heap, ret, e) = Outcome(Direct.h, Direct.v, e)

C3_Witness ==
    /\ Flattening
    /\ IsRef(call.r) /\ heap[call.r.n].cls = "Gt"
    /\ heap[call.l.n].right # call.r
    /\ \E e \in Assignments : Outcome(heap, ret, e).how = "return"
    /\ \E e \in Assignments : Outcome(heap, ret, e).how = "retry"

(***************************************************************************)
(* Operator application: what `l sym r` is expected to build.              *)
(***************************************************************************)
SymClass(sym) ==
    CASE sym = "add" -> "Add" [] sym = "sub" -> "Sub" [] sym = "mul" -> "Mul"
      [] sym = "truediv" -> "Div" [] sym = "pow" -> "Pow" [] sym = "lt" -> "Lt"
      [] sym = "gt" -> "Gt" [] sym = "or" -> "Or" [] sym = "and" -> "And"

Mirror(sym) == IF sym = "lt" THEN "gt" ELSE IF sym = "gt" THEN "lt" ELSE sym

\* the operand v is a node of class cls holding left and right
IsNode(h, v, cls, left, right) ==
    IsRef(v) /\ h[v.n].cls = cls /\ h[v.n].left = left /\ h[v.n].right = right

Applied == call.op \in Syms /\ pc = "built"
PlainApplied == Applied /\ ~IsGiven(heap, call.l) /\ ~IsGiven(heap, call.r)
GivenApplied == Applied /\ (IsGiven(heap, call.l) \/ IsGiven(heap, call.r))

\* the node is the newest object and none of the operands
Fresh == IsRef(ret) /\ ret.n = Len(heap) /\ ret # call.l /\ ret # call.r

(***************************************************************************)
(* C5 as stated: every operator applied to non-Given Expressions and       *)
(* constants, the Expression on either side, builds a new node of that     *)
(* operator's class with the operands in the order written.                *)
(***************************************************************************)
C5_AsStated ==
    PlainApplied => Fresh /\ IsNode(heap, ret, SymClass(call.op), call.l, call.r)

\* a comparison whose right operand is an Expression and whose left operand is a
\* constant or an instance of a proper base class of the right operand's class
MirroredCase ==
    /\ call.op \in {"lt", "gt"} /\ IsRef(call.r)
    /\ ~IsRef(call.l) \/ heap[call.l.n].cls \in Bases(heap[call.r.n].cls)

(***************************************************************************)
(* C5 amended: as stated, except that < and > with, on the left, a         *)
(* constant or an instance of a proper base class of the right operand's   *)
(* class build the mirrored comparison with the operands swapped (0 < x is *)
(* the node x > 0); nothing is evaluated: the operands are stored as given.*)
(***************************************************************************)
C5_OperatorBuildsNode ==
    PlainApplied =>
        /\ Fresh
        /\ IF MirroredCase
           THEN IsNode(heap, ret, SymClass(Mirror(call.op)), call.r, call.l)
           ELSE IsNode(heap, ret, SymClass(call.op), call.l, call.r)

C5_Witness ==
    /\ PlainApplied /\ call.op = "lt" /\ call.l = IntV(0)
    /\ IsNode(heap, ret, "Gt", call.r, IntV(0))

NoGivenOperand ==
    \A i \in 1..Len(heap) :
        heap[i].cls \in OpClasses =>
            ~IsGiven(heap, heap[i].left) /\ ~IsGiven(heap, heap[i].right)

\* the subject and condition written as (class, left, right) / operand
Distributed(cls, left, right, cond) ==
    /\ IsGiven(heap, ret)
    /\ IsNode(heap, heap[ret.n].left, cls, left, right)
    /\ heap[ret.n].right = cond

(***************************************************************************)
(* C4 as stated: Given(a, b) op x is Given(a op x, b); x op Given(a, b) is *)
(* a Given with subject x op a and condition b; Given(a, b) op Given(c, d) *)
(* is Given(a op c, b & d); no ordinary BinaryOp has a Given operand.      *)
(***************************************************************************)
C4_AsStated ==
    /\ NoGivenOperand
    /\ (GivenApplied /\ ~IsGiven(heap, call.r)) =>
          Distributed(SymClass(call.op), heap[call.l.n].left, call.r, heap[call.l.n].right)
    /\ (GivenApplied /\ ~IsGiven(heap, call.l)) =>
          Distributed(SymClass(call.op), call.l, heap[call.r.n].left, heap[call.r.n].right)
    /\ (GivenApplied /\ IsGiven(heap, call.l) /\ IsGiven(heap, call.r)) =>
          /\ IsGiven(heap, ret)
          /\ IsNode(heap, heap[ret.n].left, SymClass(call.op),
                    heap[call.l.n].left, heap[call.r.n].left)
          /\ IsNode(heap, heap[ret.n].right, "And",
                    heap[call.l.n].right, heap[call.r.n].right)

(***************************************************************************)
(* C4 amended: as stated, except that x < Given(a, b) and x > Given(a, b)  *)
(* have the mirrored comparison as subject: a > x, respectively a < x.     *)
(***************************************************************************)
C4_OperatorDistributesOverGiven ==
    /\ NoGivenOperand
    /\ (GivenApplied /\ ~IsGiven(heap, call.r)) =>
          Distributed(SymClass(call.op), heap[call.l.n].left, call.r, heap[call.l.n].right)
    /\ (GivenApplied /\ ~IsGiven(heap, call.l)) =>
          IF call.op \in {"lt", "gt"}
          THEN Distributed(SymClass(Mirror(call.op)), heap[call.r.n].left, call.l,
                           heap[call.r.n].right)
          ELSE Distributed(SymClass(call.op), call.l, heap[call.r.n].left,
                           heap[call.r.n].right)
    /\ (GivenApplied /\ IsGiven(heap, call.l) /\ IsGiven(heap, call.r)) =>
          /\ IsGiven(heap, ret)
          /\ IsNode(heap, heap[ret.n].left, SymClass(call.op),
                    heap[call.l.n].left, heap[call.r.n].left)
          /\ IsNode(heap, heap[ret.n].right, "And",
                    heap[call.l.n].right, heap[call.r.n].right)

C4_Witness ==
    /\ GivenApplied /\ call.op = "lt"
    /\ IsRef(call.l) /\ heap[call.l.n].cls \in VarClasses /\ IsGiven(heap, call.r)
    /\ Distributed("Gt", heap[call.r.n].left, call.l, heap[call.r.n].right)

(***************************************************************************)
(* Substitution: the last call was target.subs(values) on a BinaryOp.      *)
(***************************************************************************)
BoundKeys == {KeyOf(heap, k) : k \in DOMAIN values}
AllBound == Occurring(heap, call.l) \subseteq BoundKeys
SubsOnBinaryOp ==
    call.op = "subs" /\ pc = "returned" /\ heap[call.l.n].cls \in OpClasses \cup {"Given"}

\* a stored operand stands for the value x (a Given object is stored as a node)
Holds(v, x) == IF x = Object THEN IsGiven(heap, v) ELSE v = x

\* a new node of the target's class
SameKindOfNode ==
    IsRef(ret) /\ ret.n > call.l.n /\ heap[ret.n].cls = heap[call.l.n].cls

(***************************************************************************)
(* C6 as stated: subs on a BinaryOp, Given included, returns a concrete    *)
(* (non-Expression) value when no free variable remains in its operands,   *)
(* and otherwise a new node of the same operator.                          *)
(***************************************************************************)
C6_AsStated ==
    SubsOnBinaryOp => IF AllBound THEN IsNum(ret) ELSE SameKindOfNode

(***************************************************************************)
(* C6 amended: subs on a BinaryOp substitutes into left and right.  With   *)
(* both operands concrete an ordinary BinaryOp returns its operator        *)
(* applied to them, and a Given returns a new Given node holding the two   *)
(* concrete operands (its `op` is the Given constructor).  With an operand *)
(* still symbolic the result is a new node of the same class whose         *)
(* operands are the substituted operands.                                  *)
(***************************************************************************)
C6_SubsOnBinaryOp ==
    SubsOnBinaryOp =>
        \A e \in Assignments :
            Agrees(heap, values, e) =>
                IF AllBound /\ heap[call.l.n].cls # "Given"
                THEN ret = OpVal(heap[call.l.n].cls, Value(heap, heap[call.l.n].left, e),
                                 Value(heap, heap[call.l.n].right, e))
                ELSE /\ SameKindOfNode
                     /\ AllBound =>
                           /\ Holds(heap[ret.n].left, Value(heap, Subject, e))
                           /\ Holds(heap[ret.n].right, Value(heap, Condition, e))
                     /\ Value(heap, heap[ret.n].left, e) = Value(heap, heap[call.l.n].left, e)
                     /\ Value(heap, heap[ret.n].right, e) = Value(heap, heap[call.l.n].right, e)

C6_Witness ==
    /\ SubsOnBinaryOp /\ AllBound /\ heap[call.l.n].cls = "Given"
    /\ IsGiven(heap, ret)
    /\ heap[ret.n].left = FloatV(1, 2) /\ heap[ret.n].right = BoolV(FALSE)

Unsatisfiable ==
    \A e \in Assignments :
        ~IsErr(Value(heap, Condition, e)) /\ ~Truthy(Value(heap, Condition, e))

SubjectNeverRaises == \A e \in Assignments : ~IsErr(Value(heap, Subject, e))

Evaluated ==
    \/ Sampled /\ heap[call.l.n].cls \notin VarClasses
    \/ GivenSampling /\ pc = "sampling" /\ rejected > 0
    \/ Substituted /\ AllBound

(***************************************************************************)
(* C8: an exception raised while an expression is evaluated reaches the    *)
(* caller of subs()/sample() as it is; Given.sample() goes round again     *)
(* only after an attempt that evaluated without an exception.              *)
(***************************************************************************)
C8_ErrorsPropagate ==
    Evaluated =>
        \A e \in Assignments :
            Agrees(heap, values, e) =>
                /\ IsErr(Value(heap, call.l, e)) =>
                      pc = "raised" /\ ret = Value(heap, call.l, e)
                /\ pc = "raised" => IsErr(Value(heap, call.l, e))

C8_Witness ==
    /\ GivenSampling /\ pc = "raised" /\ rejected > 0
    /\ ret = Err("ZeroDivisionError")

(***************************************************************************)
(* C9: the unique_vars of every node are exactly the distinct Variables of *)
(* its subtree ({self} for a Variable), and subs() removes exactly the     *)
(* bound ones.                                                             *)
(***************************************************************************)
C9_UniqueVarsExact ==
    /\ \A i \in 1..Len(heap) :
          /\ \A k \in heap[i].unique_vars : heap[k].cls \in VarClasses
          /\ {KeyOf(heap, k) : k \in heap[i].unique_vars} = Occurring(heap, Ref(i))
          /\ Cardinality(heap[i].unique_vars) = Cardinality(Occurring(heap, Ref(i)))
          /\ heap[i].cls \in VarClasses => heap[i].unique_vars = {i}
    /\ (call.op = "subs" /\ pc = "returned") =>
          Occurring(heap, ret) = Occurring(heap, call.l) \ BoundKeys

C9_Witness ==
    /\ call.op = "subs" /\ pc = "returned" /\ IsRef(ret)
    /\ Cardinality(heap[call.l.n].unique_vars) = 2
    /\ Cardinality(heap[ret.n].unique_vars) = 1
    /\ Occurring(heap, ret) = Occurring(heap, call.l) \ BoundKeys

(***************************************************************************)
(* C10: construction, subs() and sample() write no object that exists:     *)
(* every node of the heap is the same after each step as before it.        *)
(***************************************************************************)
C10_NothingMutated ==
    [][\A i \in 1..Len(heap) : i <= Len(heap') /\ heap'[i] = heap[i]]_vars

C10_Witness ==
    /\ call.op = "subs" /\ pc = "returned" /\ IsRef(ret)
    /\ Len(heap) >= ret.n /\ ret.n > call.l.n + 1

====
